---- MODULE Spec2Model ----
(***************************************************************************)
(* State-machine model of src/src/manipdraw.c: the GPU pick pass           *)
(* (resolve_manip), its one-frame-delayed readback                         *)
(* (resolve_manip_complete), the click log, the highlight paint pass       *)
(* (paint_manip), the per-frame callback (draw_cb) and the plugin          *)
(* lifecycle (XPluginEnable, new_aircraft_loaded, XPluginDisable).         *)
(*                                                                         *)
(* Every handler is one action.  A handler's body is a composition of      *)
(* operators on a record holding the module's globals, the GL context      *)
(* state and the contents of the GPU objects; each operator follows the    *)
(* statements of the function it models, in order.  What a handler         *)
(* observes on its way (the pending flag at the moment of glReadPixels,    *)
(* the GL state when resolve_manip returns, the passes that ran) is        *)
(* written to the history record fr, which no operator reads back.         *)
(***************************************************************************)
EXTENDS Integers, Sequences, FiniteSets, TLC

\* ------------------------------------------------------------ bounds ----
\* Number of draw_cb invocations explored.
MaxFrames == 4
\* Number of manipulators of the scene object; their indices are 0..NumManips-1.
NumManips == 2
\* Number of draw_cb invocations explored where the geometry of a frame varies.
GeomFrames == 2
\* Number of draw_cb invocations explored for runs of readbacks.
RunFrames == 5
\* Number of draw_cb invocations explored where the lifecycle calls may fail.
LifeFrames == 3
\* Number of transfer buffers that may be allocated at once: XPluginEnable is
\* not explored further once that many exist.
MaxGlObjects == 2
\* Number of draw_cb invocations explored over the grid scene.
PickFrames == 2

\* --------------------------------------------------------- constants ----
UINT16_MAX == 65535
\* indexToPaint's initial value -1u (2^32 - 1 as an unsigned), kept as -1:
\* it lies outside every draw-call index either way.
INDEX_UNSET == -1
XP12_VERSION == 12000

Idx == 0 .. (NumManips - 1)
\* Every value a 16-bit readback is given in the model.
U16Values == Idx \cup {UINT16_MAX}

\* ------------------------------------------------------------- state ----
VARIABLES
    xpver,            \* host version, read once by XPluginStart
    caps,             \* values of the datarefs drs.modern_drv, drs.rev_float_z
    debug_build,      \* whether ASSERT() and assert() are compiled in
    enabled,          \* host side: XPluginEnable returned 1, no disable since
    cb_registered,    \* host side: draw_cb is registered
    crashed,          \* the process was aborted (VERIFY/ASSERT/NULL dereference)
    cursor_tex, cursor_fbo, cursor_pbo,
    cursor_xfer, manip_idx, prev_manip_idx, manip_clicks,
    resolve_shader, paint_shader,
    obj, indexToPaint,
    gl,               \* GL context state
    gpu,              \* contents of the pick texel and of the transfer buffer
    gl_objects,       \* GL side: how many textures, framebuffers, buffers exist
    clock,            \* value microclock() returns
    frame,            \* history: number of draw_cb invocations so far
    click_obs,        \* history: per click, the frame rendered and the frame drained
    manip_obs,        \* history: same, for the value held by manip_idx
    reads,            \* history: the values read back, oldest first
    load_obs,         \* history: what the last new_aircraft_loaded resolved
    fr                \* history: what the last draw_cb invocation saw and did

vars == << xpver, caps, debug_build, enabled, cb_registered, crashed,
           cursor_tex, cursor_fbo, cursor_pbo,
           cursor_xfer, manip_idx, prev_manip_idx, manip_clicks,
           resolve_shader, paint_shader, obj, indexToPaint,
           gl, gpu, gl_objects, clock, frame, click_obs, manip_obs, reads,
           load_obs, fr >>

\* The whole state as one record, and its commitment to the next state.
Cur ==
    [ xpver |-> xpver, caps |-> caps, debug_build |-> debug_build,
      enabled |-> enabled, cb_registered |-> cb_registered, crashed |-> crashed,
      cursor_tex |-> cursor_tex, cursor_fbo |-> cursor_fbo, cursor_pbo |-> cursor_pbo,
      cursor_xfer |-> cursor_xfer, manip_idx |-> manip_idx,
      prev_manip_idx |-> prev_manip_idx, manip_clicks |-> manip_clicks,
      resolve_shader |-> resolve_shader, paint_shader |-> paint_shader,
      obj |-> obj, indexToPaint |-> indexToPaint,
      gl |-> gl, gpu |-> gpu, gl_objects |-> gl_objects,
      clock |-> clock, frame |-> frame,
      click_obs |-> click_obs, manip_obs |-> manip_obs, reads |-> reads,
      load_obs |-> load_obs, fr |-> fr ]

Commit(s) ==
    /\ xpver' = s.xpver /\ caps' = s.caps /\ debug_build' = s.debug_build
    /\ enabled' = s.enabled /\ cb_registered' = s.cb_registered
    /\ crashed' = s.crashed
    /\ cursor_tex' = s.cursor_tex /\ cursor_fbo' = s.cursor_fbo
    /\ cursor_pbo' = s.cursor_pbo
    /\ cursor_xfer' = s.cursor_xfer /\ manip_idx' = s.manip_idx
    /\ prev_manip_idx' = s.prev_manip_idx /\ manip_clicks' = s.manip_clicks
    /\ resolve_shader' = s.resolve_shader /\ paint_shader' = s.paint_shader
    /\ obj' = s.obj /\ indexToPaint' = s.indexToPaint
    /\ gl' = s.gl /\ gpu' = s.gpu /\ gl_objects' = s.gl_objects
    /\ clock' = s.clock /\ frame' = s.frame
    /\ click_obs' = s.click_obs /\ manip_obs' = s.manip_obs
    /\ reads' = s.reads /\ load_obs' = s.load_obs /\ fr' = s.fr

\* ------------------------------------------------- values and inputs ----
\* obj == NULL, and a parsed obj8_t with the render mode last set on it.
NULL_OBJ == [loaded |-> FALSE, mode |-> "NONE", arg |-> 0]
LoadedObj == [loaded |-> TRUE, mode |-> "ALL", arg |-> 0]

\* A transfer buffer (or texel) whose storage was allocated and never written.
UndefinedPbo == [defined |-> FALSE, val |-> 0, src |-> 0, covered |-> FALSE]
NoGpu == [texel |-> 0, depth |-> 0, pbo |-> UndefinedPbo]
\* No GL object exists.
NoGlObjects == [tex |-> 0, fbo |-> 0, pbo |-> 0]
\* No aircraft load was attempted.
NoLoad == [attempted |-> FALSE, object |-> FALSE, binding |-> FALSE]

\* Host viewports (x, y, width, height) and pointer positions of a frame.
Viewports == { <<0, 0, 800, 600>>, <<100, 50, 400, 300>> }
MousePts == { <<100, 100>>, <<-5, 100>>, <<500, 350>>, <<800, 600>>,
              <<801, 100>>, <<100, 20>>, <<100, 601>>, <<100, 50>> }

\* The part of the GL state the host owns when it calls draw_cb.
HostStates ==
    { [fbo |-> 0, depth_test |-> FALSE, depth_mask |-> FALSE,
       depth_func |-> "GL_LESS", clear_depth |-> 1],
      [fbo |-> 3, depth_test |-> TRUE, depth_mask |-> TRUE,
       depth_func |-> "GL_LEQUAL", clear_depth |-> 1],
      [fbo |-> 3, depth_test |-> FALSE, depth_mask |-> FALSE,
       depth_func |-> "GL_GREATER", clear_depth |-> 0] }
HostFboNames == { h.fbo : h \in HostStates }

\* The manipulator geometry of the frame: none, one manipulator covering the
\* whole viewport, or a grid of NumManips columns and NumManips rows tiling
\* the viewport, the cell of column c and row r drawn with index
\* r * NumManips + c.
Scenes == { [kind |-> "empty", idx |-> 0], [kind |-> "grid", idx |-> 0] }
          \cup { [kind |-> "full", idx |-> k] : k \in Idx }

\* The draw-call index obj8_nearest_tris_for_cmd finds for the painted command.
CmdIdxs == { 7 }

\* Host version and capability datarefs of a session.
HostCaps ==
    { [xpver |-> 11500, modern_drv |-> 0, rev_float_z |-> 0],
      [xpver |-> 11500, modern_drv |-> 1, rev_float_z |-> 0],
      [xpver |-> 11500, modern_drv |-> 0, rev_float_z |-> 1],
      [xpver |-> XP12_VERSION, modern_drv |-> 0, rev_float_z |-> 0] }

\* The inputs of the specification of the readback pipeline.
PipeVps == { <<0, 0, 800, 600>> }
PipeMice == { <<100, 100>>, <<-5, 100>> }
PipeHosts == { h \in HostStates : h.fbo = 0 }
PipeCaps == { c \in HostCaps : c.modern_drv = 0 /\ c.rev_float_z = 0 }
PipeScenes == { g \in Scenes : g.kind # "grid" }

\* The inputs of the specification of the pick geometry: pointers inside the
\* viewports and on their far edges, over the grid or over nothing.
PickMice == { <<100, 100>>, <<500, 350>>, <<300, 300>>, <<500, 100>>,
              <<800, 600>> }
PickScenes == { g \in Scenes : g.kind \in {"grid", "empty"} }

\* The inputs of the specification of the lifecycle.
LifeCaps == { c \in PipeCaps : c.xpver < XP12_VERSION }
LifeScenes == { g \in PipeScenes : g.idx = 0 }

\* The GL context as the host hands it to draw_cb.
HostGl(host, vp) ==
    [ fbo |-> host.fbo, viewport |-> vp,
      depth_test |-> host.depth_test, depth_mask |-> host.depth_mask,
      depth_func |-> host.depth_func, clear_depth |-> host.clear_depth,
      clear_color |-> <<0, 0, 0, 0>>, blend |-> FALSE,
      program |-> "none", pack_buffer |-> 0 ]

\* The history record of a draw_cb invocation that did nothing yet.
NoDraw == [mode |-> "NONE", arg |-> 0]
FrameObs(in) ==
    [ mouse |-> in.mouse, vp |-> in.vp, host |-> in.host, scene |-> in.scene,
      map |-> "none", xfer_after_drain |-> "n/a", xfer_at_issue |-> "n/a",
      gl_resolved |-> HostGl(in.host, in.vp), resolved |-> FALSE,
      ops |-> <<>>, covered |-> FALSE,
      pick_draw |-> NoDraw, paint_draw |-> NoDraw, paint_cmdidx |-> 0 ]
NoInput == [mouse |-> <<0, 0>>, vp |-> <<0, 0, 0, 0>>,
            scene |-> [kind |-> "empty", idx |-> 0],
            host |-> [fbo |-> 0, depth_test |-> FALSE, depth_mask |-> FALSE,
                      depth_func |-> "GL_LESS", clear_depth |-> 1]]

\* glGen*: a name that is not zero and not in use.
GenName(used) == CHOOSE n \in 1 .. (Cardinality(used) + 1) : n \notin used

\* ---------------------------------------------------------- helpers ----
Crash(s) == [s EXCEPT !.crashed = TRUE]
Note(s, op) == [s EXCEPT !.fr.ops = Append(@, op)]

\* The texel a cleared colour channel holds in a 16-bit normalized texture.
UnormToU16(c) == c * UINT16_MAX

\* Whether a fragment strictly inside the depth range passes the depth test
\* against a depth buffer cleared to clear (0 or 1).
DepthPass(func, clear) ==
    CASE func = "GL_LESS" -> clear = 1
      [] func = "GL_LEQUAL" -> clear = 1
      [] func = "GL_GREATER" -> clear = 0
      [] OTHER -> FALSE

\* The manipulator the scene rasterizes at pixel (px, py) of window space
\* when the GL viewport is view, as <<covered, index>>.
CoverAt(scene, view, px, py) ==
    LET u == px - view[1]
        v == py - view[2]
        w == view[3]
        h == view[4]
        inside == u >= 0 /\ u < w /\ v >= 0 /\ v < h
    IN  CASE ~inside \/ scene.kind = "empty" -> <<FALSE, 0>>
          [] scene.kind = "full" -> <<TRUE, scene.idx>>
          [] OTHER -> <<TRUE, ((v * NumManips) \div h) * NumManips
                                + ((u * NumManips) \div w)>>

\* ------------------------------------------------------- the passes ----
\* resolve_manip_complete(), lines 194-208: a readback that is not the
\* sentinel and differs from the index logged last is logged as a click.
ClickLog_NoDedup(s) ==
    IF s.manip_idx # UINT16_MAX
    THEN [s EXCEPT
            !.prev_manip_idx = s.manip_idx,
            !.manip_clicks = Append(@, [index |-> s.manip_idx,
                                        start_t |-> s.clock]),
            !.click_obs = Append(@, [src |-> s.gpu.pbo.src, at |-> s.frame])]
    ELSE s

ClickLog_ResetOnSentinel(s) ==
    IF s.manip_idx # UINT16_MAX /\ s.manip_idx # s.prev_manip_idx
    THEN [s EXCEPT
            !.prev_manip_idx = s.manip_idx,
            !.manip_clicks = Append(@, [index |-> s.manip_idx,
                                        start_t |-> s.clock]),
            !.click_obs = Append(@, [src |-> s.gpu.pbo.src, at |-> s.frame])]
    ELSE IF s.manip_idx = UINT16_MAX
    THEN [s EXCEPT !.prev_manip_idx = UINT16_MAX]
    ELSE s

ClickLog_Restamp(s) ==
    IF s.manip_idx # UINT16_MAX /\ s.manip_idx # s.prev_manip_idx
    THEN [s EXCEPT
            !.prev_manip_idx = s.manip_idx,
            !.manip_clicks = Append(@, [index |-> s.manip_idx,
                                        start_t |-> s.clock]),
            !.click_obs = Append(@, [src |-> s.gpu.pbo.src, at |-> s.frame])]
    ELSE IF s.manip_idx # UINT16_MAX
    THEN [s EXCEPT !.manip_clicks[Len(s.manip_clicks)].start_t = s.clock]
    ELSE s

ClickLog_StalePrev(s) ==
    IF s.manip_idx # UINT16_MAX /\ s.manip_idx # s.prev_manip_idx
    THEN [s EXCEPT
            !.manip_clicks = Append(@, [index |-> s.manip_idx,
                                        start_t |-> s.clock]),
            !.click_obs = Append(@, [src |-> s.gpu.pbo.src, at |-> s.frame])]
    ELSE s

ClickLog(s) ==
    IF s.manip_idx # UINT16_MAX /\ s.manip_idx # s.prev_manip_idx
    THEN [s EXCEPT
            !.prev_manip_idx = s.manip_idx,
            !.manip_clicks = Append(@, [index |-> s.manip_idx,
                                        start_t |-> s.clock]),
            !.click_obs = Append(@, [src |-> s.gpu.pbo.src, at |-> s.frame])]
    ELSE s

\* resolve_manip_complete(), lines 189-209: the buffer is mapped; the pixel
\* is read into manip_idx and logged.  in.garbage is what a buffer that was
\* never written reads as.
MapRead(s, in) ==
    LET data == IF s.gpu.pbo.defined THEN s.gpu.pbo.val ELSE in.garbage
        read == [s EXCEPT
                    !.manip_idx = data % (UINT16_MAX + 1),
                    !.manip_obs = [src |-> s.gpu.pbo.src, at |-> s.frame,
                                   covered |-> s.gpu.pbo.covered],
                    !.fr.map = "ok"]
        logged == ClickLog(read)
    IN  [logged EXCEPT
            !.reads = Append(@, [val |-> logged.manip_idx,
                                 n |-> Len(logged.manip_clicks),
                                 t |-> logged.clock])]

ResolveManipComplete_KeepPending(s, in) ==
    LET s0 == Note(s, "drain") IN
    IF ~s0.cursor_xfer THEN s0
    ELSE
      LET bound == [s0 EXCEPT !.gl.pack_buffer = s0.cursor_pbo]
          mapped == in.map_ok /\ bound.gl.pack_buffer # 0
          after == IF mapped
                   THEN [MapRead(bound, in) EXCEPT !.cursor_xfer = FALSE]
                   ELSE [bound EXCEPT !.fr.map = "fail"]
          done == [after EXCEPT !.gl.pack_buffer = 0]
      IN  [done EXCEPT !.fr.xfer_after_drain =
                          IF done.cursor_xfer THEN "pending" ELSE "idle"]

ResolveManipComplete_ReadOnFail(s, in) ==
    LET s0 == Note(s, "drain") IN
    IF ~s0.cursor_xfer THEN s0
    ELSE
      LET bound == [s0 EXCEPT !.gl.pack_buffer = s0.cursor_pbo]
          mapped == in.map_ok /\ bound.gl.pack_buffer # 0
          after == IF mapped THEN MapRead(bound, in)
                   ELSE [MapRead(bound, in) EXCEPT !.fr.map = "fail"]
          done == [after EXCEPT !.gl.pack_buffer = 0, !.cursor_xfer = FALSE]
      IN  [done EXCEPT !.fr.xfer_after_drain =
                          IF done.cursor_xfer THEN "pending" ELSE "idle"]

ResolveManipComplete_AlwaysMaps(s, in) ==
    LET s0 == Note(s, "drain")
        bound == [s0 EXCEPT !.gl.pack_buffer = s0.cursor_pbo]
        mapped == in.map_ok /\ bound.gl.pack_buffer # 0
        after == IF mapped THEN MapRead(bound, in)
                 ELSE [bound EXCEPT !.fr.map = "fail"]
        done == [after EXCEPT !.gl.pack_buffer = 0, !.cursor_xfer = FALSE]
    IN  [done EXCEPT !.fr.xfer_after_drain = "idle"]

\* resolve_manip_complete(): the drain of the transfer issued earlier.
\* in.map_ok is whether glMapBuffer returns a pointer.
ResolveManipComplete(s, in) ==
    LET s0 == Note(s, "drain") IN
    IF ~s0.cursor_xfer THEN s0
    ELSE IF s0.debug_build /\ s0.cursor_pbo = 0 THEN Crash(s0)
    ELSE
      LET bound == [s0 EXCEPT !.gl.pack_buffer = s0.cursor_pbo]
          mapped == in.map_ok /\ bound.gl.pack_buffer # 0
          after == IF mapped THEN MapRead(bound, in)
                   ELSE [bound EXCEPT !.fr.map = "fail"]
          done == [after EXCEPT !.gl.pack_buffer = 0, !.cursor_xfer = FALSE]
      IN  [done EXCEPT !.fr.xfer_after_drain =
                          IF done.cursor_xfer THEN "pending" ELSE "idle"]

\* is_rev_float_z()
is_rev_float_z(s) ==
    s.xpver >= XP12_VERSION \/ s.caps.modern_drv # 0 \/ s.caps.rev_float_z # 0

PickSetup_ClearZero(s, in) ==
    LET vp == in.vp
        g1 == [s.gl EXCEPT
                 !.fbo = s.cursor_fbo,
                 !.viewport = <<vp[1] - in.mouse[1], vp[2] - in.mouse[2],
                                vp[3], vp[4]>>,
                 !.depth_test = TRUE,
                 !.depth_mask = TRUE]
        g2 == IF s.xpver >= XP12_VERSION \/ s.caps.modern_drv # 0
                 \/ s.caps.rev_float_z # 0
              THEN [g1 EXCEPT !.depth_func = "GL_GREATER", !.clear_depth = 0]
              ELSE g1
        g3 == [g2 EXCEPT !.clear_color = <<0, 0, 0, 1>>]
        onpick == g3.fbo # 0 /\ g3.fbo = s.cursor_fbo
        cleared == IF onpick
                   THEN [s.gpu EXCEPT !.texel = g3.clear_color[1] * UINT16_MAX,
                                      !.depth = g3.clear_depth]
                   ELSE s.gpu
    IN  [s EXCEPT !.gl = [g3 EXCEPT !.clear_color = <<0, 0, 0, 0>>],
                  !.gpu = cleared]

PickSetup_NoOffset(s, in) ==
    LET g1 == [s.gl EXCEPT
                 !.fbo = s.cursor_fbo,
                 !.viewport = in.vp,
                 !.depth_test = TRUE,
                 !.depth_mask = TRUE]
        g2 == IF s.xpver >= XP12_VERSION \/ s.caps.modern_drv # 0
                 \/ s.caps.rev_float_z # 0
              THEN [g1 EXCEPT !.depth_func = "GL_GREATER", !.clear_depth = 0]
              ELSE g1
        onpick == g2.fbo # 0 /\ g2.fbo = s.cursor_fbo
        cleared == IF onpick
                   THEN [s.gpu EXCEPT !.texel = UINT16_MAX,
                                      !.depth = g2.clear_depth]
                   ELSE s.gpu
    IN  [s EXCEPT !.gl = g2, !.gpu = cleared]

\* resolve_manip(), lines 232-248: bind the pick surface, offset the
\* viewport, set the depth state and clear to the sentinel.
PickSetup(s, in) ==
    LET vp == in.vp
        g1 == [s.gl EXCEPT
                 !.fbo = s.cursor_fbo,
                 !.viewport = <<vp[1] - in.mouse[1], vp[2] - in.mouse[2],
                                vp[3], vp[4]>>,
                 !.depth_test = TRUE,
                 !.depth_mask = TRUE]
        g2 == IF is_rev_float_z(s)
              THEN [g1 EXCEPT !.depth_func = "GL_GREATER", !.clear_depth = 0]
              ELSE g1
        g3 == [g2 EXCEPT !.clear_color = <<1, 0, 0, 1>>]
        onpick == g3.fbo # 0 /\ g3.fbo = s.cursor_fbo
        cleared == IF onpick
                   THEN [s.gpu EXCEPT !.texel = UnormToU16(g3.clear_color[1]),
                                      !.depth = g3.clear_depth]
                   ELSE s.gpu
    IN  [s EXCEPT !.gl = [g3 EXCEPT !.clear_color = <<0, 0, 0, 0>>],
                  !.gpu = cleared]

PickDraw_KeepMode(s, in) ==
    LET s1 == [s EXCEPT !.gl.program = "resolve"]
        hit == CoverAt(in.scene, s1.gl.viewport, 0, 0)
        onpick == s1.gl.fbo # 0 /\ s1.gl.fbo = s1.cursor_fbo
        passes == ~s1.gl.depth_test
                  \/ DepthPass(s1.gl.depth_func, s1.gpu.depth)
        drawn == onpick /\ hit[1] /\ passes /\ s1.obj.mode = "MANIP_ONLY"
    IN  [s1 EXCEPT !.gpu.texel = IF drawn THEN hit[2] ELSE @,
                   !.fr.pick_draw = [mode |-> s1.obj.mode, arg |-> s1.obj.arg],
                   !.fr.covered = hit[1]]

\* resolve_manip(), lines 250-255: draw the manipulators, each with its index.
PickDraw(s, in) ==
    LET s1 == [s EXCEPT !.gl.program = "resolve",
                        !.obj.mode = "MANIP_ONLY", !.obj.arg = 0]
        hit == CoverAt(in.scene, s1.gl.viewport, 0, 0)
        onpick == s1.gl.fbo # 0 /\ s1.gl.fbo = s1.cursor_fbo
        passes == ~s1.gl.depth_test
                  \/ DepthPass(s1.gl.depth_func, s1.gpu.depth)
        drawn == onpick /\ hit[1] /\ passes /\ s1.obj.mode = "MANIP_ONLY"
    IN  [s1 EXCEPT !.gpu.texel = IF drawn THEN hit[2] ELSE @,
                   !.fr.pick_draw = [mode |-> s1.obj.mode, arg |-> s1.obj.arg],
                   !.fr.covered = hit[1]]

\* resolve_manip(), lines 257-261: the asynchronous copy of the texel into
\* the transfer buffer.
PickIssue(s, in) ==
    LET bound == [s EXCEPT !.gl.pack_buffer = s.cursor_pbo] IN
    [bound EXCEPT
        !.gpu.pbo = [defined |-> TRUE, val |-> bound.gpu.texel,
                     src |-> bound.frame, covered |-> bound.fr.covered],
        !.fr.xfer_at_issue = IF bound.cursor_xfer THEN "pending" ELSE "idle",
        !.fr.ops = Append(@, "issue"),
        !.gl.pack_buffer = 0,
        !.cursor_xfer = TRUE]

\* resolve_manip(), lines 265-272: hand the GL context back to the host.
PickRestore(s, in) ==
    LET g1 == [s.gl EXCEPT !.depth_test = FALSE, !.depth_mask = FALSE]
        g2 == IF is_rev_float_z(s)
              THEN [g1 EXCEPT !.depth_func = "GL_LESS", !.clear_depth = 1]
              ELSE g1
        g3 == [g2 EXCEPT !.fbo = in.host.fbo, !.viewport = in.vp]
    IN  [s EXCEPT !.gl = g3, !.fr.gl_resolved = g3, !.fr.resolved = TRUE]

ResolveManip_IssueFirst(s, in) ==
    ResolveManipComplete(
        PickRestore(PickIssue(PickDraw(PickSetup(s, in), in), in), in), in)

ResolveManip_NoDrain(s, in) ==
    PickRestore(PickIssue(PickDraw(PickSetup(s, in), in), in), in)

\* resolve_manip()
ResolveManip(s, in) ==
    LET s1 == ResolveManipComplete(s, in) IN
    IF s1.crashed THEN s1
    ELSE IF s1.debug_build /\ s1.cursor_fbo = 0 THEN Crash(s1)
    ELSE
      LET s2 == PickSetup(s1, in) IN
      IF ~s2.obj.loaded THEN Crash([s2 EXCEPT !.gl.program = "resolve"])
      ELSE
        LET s3 == PickDraw(s2, in) IN
        IF s3.cursor_pbo = 0 THEN Crash(s3)
        ELSE PickRestore(PickIssue(s3, in), in)

\* paint_manip()
PaintManip(s, in) ==
    LET s1 == [s EXCEPT !.gl.program = "paint"] IN
    IF ~s1.obj.loaded THEN Crash(s1)
    ELSE
      LET s2 == [s1 EXCEPT !.gl.blend = TRUE,
                           !.obj.mode = "NONMANIP_ONLY_ONE",
                           !.obj.arg = s1.indexToPaint]
      IN  [s2 EXCEPT
              !.fr.paint_draw = [mode |-> s2.obj.mode, arg |-> s2.obj.arg],
              !.fr.paint_cmdidx = s2.indexToPaint,
              !.fr.ops = Append(@, "paint"),
              !.gl.viewport = in.vp]

MouseOffScreen_Exclusive(mouse, vp) ==
    \/ mouse[1] < vp[1]
    \/ mouse[1] >= vp[1] + vp[3]
    \/ mouse[2] < vp[2]
    \/ mouse[2] >= vp[2] + vp[4]

MouseOffScreen_NoOrigin(mouse, vp) ==
    \/ mouse[1] < vp[1]
    \/ mouse[1] > vp[3]
    \/ mouse[2] < vp[2]
    \/ mouse[2] > vp[4]

\* draw_cb(), line 404: the pointer is off the viewport.
MouseOffScreen(mouse, vp) ==
    \/ mouse[1] < vp[1]
    \/ mouse[1] > vp[1] + vp[3]
    \/ mouse[2] < vp[2]
    \/ mouse[2] > vp[2] + vp[4]

DrawCbBody_DrainWhenOff(s, in) ==
    IF MouseOffScreen(in.mouse, in.vp)
    THEN [ResolveManipComplete(s, in) EXCEPT !.fr.ops = <<>>]
    ELSE
      LET s1 == ResolveManip(s, in) IN
      IF s1.crashed THEN s1
      ELSE
        LET s2 == PaintManip(s1, in) IN
        IF s2.crashed THEN s2
        ELSE [s2 EXCEPT !.gl.program = "none"]

DrawCbBody_PaintOnHit(s, in) ==
    IF MouseOffScreen(in.mouse, in.vp) THEN s
    ELSE
      LET s1 == ResolveManip(s, in) IN
      IF s1.crashed THEN s1
      ELSE IF s1.manip_idx = UINT16_MAX THEN [s1 EXCEPT !.gl.program = "none"]
      ELSE
        LET s2 == PaintManip(s1, in) IN
        IF s2.crashed THEN s2
        ELSE [s2 EXCEPT !.gl.program = "none"]

\* draw_cb(): s is the state at entry, the GL context being the host's.
DrawCbBody(s, in) ==
    IF MouseOffScreen(in.mouse, in.vp) THEN s
    ELSE
      LET s1 == ResolveManip(s, in) IN
      IF s1.crashed THEN s1
      ELSE
        LET s2 == PaintManip(s1, in) IN
        IF s2.crashed THEN s2
        ELSE [s2 EXCEPT !.gl.program = "none"]

\* ------------------------------------------------------ the lifecycle ----
\* create_cursor_objects(): fails names the glGen* call that returns 0
\* ("none" when all succeed); VERIFY aborts the process there.
CreateCursorObjects(s, fails) ==
    LET t0 == GenName({})
        t1 == GenName({t0})
        s1 == [s EXCEPT !.cursor_tex = IF fails = "tex" THEN <<0, 0>>
                                       ELSE <<t0, t1>>,
                        !.gl_objects.tex = IF fails = "tex" THEN @ ELSE @ + 2]
    IN  IF s1.cursor_tex[1] = 0 THEN Crash(s1)
        ELSE
          LET s2 == [s1 EXCEPT !.cursor_fbo = IF fails = "fbo" THEN 0
                                              ELSE GenName(HostFboNames),
                               !.gl_objects.fbo = IF fails = "fbo" THEN @
                                                  ELSE @ + 1,
                               !.gpu.texel = 0, !.gpu.depth = 0]
          IN  IF s2.cursor_fbo = 0 THEN Crash(s2)
              ELSE
                LET s3 == [s2 EXCEPT !.cursor_pbo = IF fails = "pbo" THEN 0
                                                    ELSE GenName({}),
                                     !.gl_objects.pbo = IF fails = "pbo" THEN @
                                                        ELSE @ + 1,
                                     !.gpu.pbo = UndefinedPbo,
                                     !.gl.pack_buffer = 0]
                IN  IF s3.cursor_pbo = 0 THEN Crash(s3) ELSE s3

\* destroy_cursor_objects()
DestroyCursorObjects(s) ==
    LET s1 == IF s.cursor_pbo # 0
              THEN [s EXCEPT !.cursor_pbo = 0, !.gpu.pbo = UndefinedPbo,
                             !.gl_objects.pbo = @ - 1]
              ELSE s
        s2 == IF s1.cursor_fbo # 0
              THEN [s1 EXCEPT !.cursor_fbo = 0, !.gl_objects.fbo = @ - 1]
              ELSE s1
    IN  IF s2.cursor_tex[1] # 0
        THEN [s2 EXCEPT !.cursor_tex = <<0, 0>>,
                        !.gl_objects.tex = @ - 2,
                        !.gpu.texel = 0, !.gpu.depth = 0]
        ELSE s2

\* XPluginEnable(): shaders names the shader_obj_init call that fails
\* ("none" when both programs build).  The capability datarefs are found.
XPluginEnableBody(s, fails, shaders) ==
    LET s1 == CreateCursorObjects(s, fails) IN
    IF s1.crashed THEN s1
    ELSE IF shaders = "resolve" THEN s1
    ELSE IF shaders = "paint" THEN [s1 EXCEPT !.resolve_shader = TRUE]
    ELSE [s1 EXCEPT !.resolve_shader = TRUE, !.paint_shader = TRUE,
                    !.enabled = TRUE]

\* new_aircraft_loaded(): found is whether the aircraft lists knobs.obj,
\* parsed whether obj8_parse returns an object, binding whether a command
\* of the object is bound to ckpt/pushbutton/39, tris the draw-call index
\* obj8_nearest_tris_for_cmd returns for it.
NewAircraftLoadedBody(s, found, parsed, binding, tris) ==
    LET s1 == [s EXCEPT !.cb_registered = TRUE,
                        !.load_obs = [attempted |-> TRUE, object |-> FALSE,
                                      binding |-> FALSE]]
    IN
    IF ~found THEN (IF s1.debug_build THEN Crash(s1) ELSE s1)
    ELSE
      LET s2 == [s1 EXCEPT !.obj = IF parsed THEN LoadedObj ELSE NULL_OBJ] IN
      IF ~s2.obj.loaded THEN (IF s2.debug_build THEN Crash(s2) ELSE s2)
      ELSE IF binding THEN [s2 EXCEPT !.indexToPaint = tris,
                                      !.load_obs.object = TRUE,
                                      !.load_obs.binding = TRUE]
      ELSE [s2 EXCEPT !.load_obs.object = TRUE]

XPluginDisableBody_ClearLog(s) ==
    LET s1 == [s EXCEPT !.cb_registered = FALSE]
        s2 == DestroyCursorObjects(s1)
        s3 == [s2 EXCEPT !.resolve_shader = FALSE, !.paint_shader = FALSE]
        s4 == IF s3.obj.loaded THEN [s3 EXCEPT !.obj = NULL_OBJ] ELSE s3
    IN  [s4 EXCEPT !.enabled = FALSE, !.manip_clicks = <<>>]

\* XPluginDisable()
XPluginDisableBody(s) ==
    LET s1 == [s EXCEPT !.cb_registered = FALSE]
        s2 == DestroyCursorObjects(s1)
        s3 == [s2 EXCEPT !.resolve_shader = FALSE, !.paint_shader = FALSE]
        s4 == IF s3.obj.loaded THEN [s3 EXCEPT !.obj = NULL_OBJ] ELSE s3
    IN  [s4 EXCEPT !.enabled = FALSE]

\* ------------------------------------------------------------ actions ----
InitWith(Caps, Builds) ==
    /\ \E c \in Caps :
          /\ xpver = c.xpver
          /\ caps = [modern_drv |-> c.modern_drv, rev_float_z |-> c.rev_float_z]
    /\ debug_build \in Builds
    /\ enabled = FALSE /\ cb_registered = FALSE /\ crashed = FALSE
    /\ cursor_tex = <<0, 0>> /\ cursor_fbo = 0 /\ cursor_pbo = 0
    /\ cursor_xfer = FALSE
    /\ manip_idx = UINT16_MAX /\ prev_manip_idx = UINT16_MAX
    /\ manip_clicks = <<>>
    /\ resolve_shader = FALSE /\ paint_shader = FALSE
    /\ obj = NULL_OBJ /\ indexToPaint = INDEX_UNSET
    /\ gl = HostGl(NoInput.host, NoInput.vp)
    /\ gpu = NoGpu
    /\ gl_objects = NoGlObjects
    /\ clock = 0 /\ frame = 0
    /\ click_obs = <<>>
    /\ manip_obs = [src |-> 0, at |-> 0, covered |-> FALSE]
    /\ reads = <<>>
    /\ load_obs = NoLoad
    /\ fr = FrameObs(NoInput)

\* The host enables the plugin; glGen* fails as one of Fails says and
\* shader_obj_init as one of Shaders says.
XPluginEnableWith(Fails, Shaders) ==
    /\ ~crashed /\ ~enabled
    /\ gl_objects.pbo < MaxGlObjects
    /\ \E fails \in Fails, shaders \in Shaders :
          Commit(XPluginEnableBody(Cur, fails, shaders))

\* The host reports that the user's aircraft was loaded
\* (XPluginReceiveMessage, XPLM_MSG_PLANE_LOADED with parameter 0).
NewAircraftLoadedWith(Found, Parsed, Bindings) ==
    /\ ~crashed /\ enabled
    /\ \E found \in Found, parsed \in Parsed, binding \in Bindings,
          tris \in CmdIdxs :
          Commit(NewAircraftLoadedBody(Cur, found, parsed, binding, tris))

\* The host disables the plugin.
XPluginDisable ==
    /\ ~crashed /\ enabled
    /\ Commit(XPluginDisableBody(Cur))

\* The host draws a frame and calls the registered draw_cb, with the pointer
\* at one of Mice, the viewport one of Vps, its GL state one of Hosts and
\* the manipulator geometry one of Geoms.
DrawCbWith(Mice, Vps, Hosts, Geoms, maxf) ==
    /\ ~crashed /\ cb_registered
    /\ frame < maxf
    /\ \E mouse \in Mice, vp \in Vps, host \in Hosts :
       \E scene \in (IF MouseOffScreen(mouse, vp)
                     THEN {[kind |-> "empty", idx |-> 0]} ELSE Geoms),
          map_ok \in (IF cursor_xfer /\ ~MouseOffScreen(mouse, vp)
                      THEN BOOLEAN ELSE {TRUE}),
          garbage \in (IF cursor_xfer /\ ~gpu.pbo.defined
                          /\ ~MouseOffScreen(mouse, vp)
                       THEN U16Values ELSE {0}) :
          LET in == [mouse |-> mouse, vp |-> vp, host |-> host,
                     scene |-> scene, map_ok |-> map_ok,
                     garbage |-> garbage]
              entry == [Cur EXCEPT !.frame = frame + 1,
                                   !.clock = clock + 1,
                                   !.gl = HostGl(host, vp),
                                   !.fr = FrameObs(in)]
          IN  Commit(DrawCbBody(entry, in))

\* The readback pipeline: any sequence of enables, aircraft loads, disables
\* and frames in which GPU object creation, shader compilation and the
\* aircraft load (object and command binding) succeed, with the pointer on
\* or off one viewport, over no geometry or one manipulator.
Init == InitWith(PipeCaps, BOOLEAN)
XPluginEnable == XPluginEnableWith({"none"}, {"none"})
NewAircraftLoaded == NewAircraftLoadedWith({TRUE}, {TRUE}, {TRUE})
DrawCb == DrawCbWith(PipeMice, PipeVps, PipeHosts, PipeScenes, MaxFrames)
Next ==
    \/ XPluginEnable
    \/ NewAircraftLoaded
    \/ XPluginDisable
    \/ DrawCb

Spec == Init /\ [][Next]_vars

\* The geometry of a frame: every viewport, pointer position, host GL state
\* and host capability, over GeomFrames frames of one enabled session.
InitGeom == InitWith(HostCaps, {FALSE})
DrawCbGeom ==
    DrawCbWith(MousePts, Viewports, HostStates, PipeScenes, GeomFrames)
NextGeom ==
    \/ XPluginEnable
    \/ NewAircraftLoaded
    \/ DrawCbGeom

SpecGeom == InitGeom /\ [][NextGeom]_vars

\* Runs of readbacks: RunFrames frames of one enabled session with the
\* pointer on the viewport, over no geometry or one manipulator.
InitRun == InitWith(PipeCaps, {FALSE})
DrawCbRun ==
    DrawCbWith({<<100, 100>>}, PipeVps, PipeHosts, PipeScenes, RunFrames)
NextRun ==
    \/ XPluginEnable
    \/ NewAircraftLoaded
    \/ DrawCbRun

SpecRun == InitRun /\ [][NextRun]_vars

\* The pick geometry: the grid under every pointer of PickMice, in both
\* viewports, every host GL state and both depth modes, over PickFrames
\* frames.
DrawCbPick == DrawCbWith(PickMice, Viewports, HostStates, PickScenes, PickFrames)
NextPick ==
    \/ XPluginEnable
    \/ NewAircraftLoaded
    \/ DrawCbPick

SpecPick == InitGeom /\ [][NextPick]_vars

\* The lifecycle: every outcome of GPU object creation, shader compilation
\* and aircraft load, over LifeFrames frames.
InitLife == InitWith(LifeCaps, BOOLEAN)
XPluginEnableLife ==
    XPluginEnableWith({"none", "tex", "fbo", "pbo"}, {"none", "resolve", "paint"})
NewAircraftLoadedLife == NewAircraftLoadedWith(BOOLEAN, BOOLEAN, BOOLEAN)
DrawCbLife == DrawCbWith(PipeMice, PipeVps, PipeHosts, LifeScenes, LifeFrames)
NextLife ==
    \/ XPluginEnableLife
    \/ NewAircraftLoadedLife
    \/ XPluginDisable
    \/ DrawCbLife

SpecLife == InitLife /\ [][NextLife]_vars

\* ============================================================= claims ====
SENTINEL == UINT16_MAX
ClickIndices == [i \in 1 .. Len(manip_clicks) |-> manip_clicks[i].index]

\* C1: whenever resolve_manip issues the copy into the transfer buffer
\* (glReadPixels), the pending flag cursor_xfer is false at that moment, so
\* no earlier transfer is outstanding when a new one is issued.
C1_OneTransferAtIssue == fr.xfer_at_issue # "pending"

\* A frame that began with a transfer pending, drained it, and issued anew.
C1_Witness ==
    /\ frame >= 2
    /\ fr.map # "none"
    /\ fr.xfer_at_issue = "idle"
    /\ cursor_xfer

\* C2, as claimed: a drain whose map is not ready leaves the transfer
\* pending (cursor_xfer stays true) for the next frame to retry.
C2_StaysRequested == fr.map = "fail" => fr.xfer_after_drain = "pending"

\* C2, amended: a drain whose map is not ready surfaces no error and leaves
\* manip_idx, prev_manip_idx and the click log unchanged, but it clears
\* cursor_xfer; the pick pass of the same frame then overwrites the transfer
\* buffer with a new transfer, which is what the next drain reads.  (A frame
\* aborted after its drain, for want of a loaded object, issues nothing.)
C2_FailedMapDropsTransfer ==
    [][ (frame' = frame + 1 /\ fr'.map = "fail") =>
          /\ fr'.xfer_after_drain = "idle"
          /\ manip_idx' = manip_idx
          /\ prev_manip_idx' = prev_manip_idx
          /\ manip_clicks' = manip_clicks
          /\ reads' = reads
          /\ (~crashed' => /\ cursor_xfer'
                           /\ gpu'.pbo.defined
                           /\ gpu'.pbo.src = frame') ]_vars

\* A frame whose drain found the map not ready, after an earlier readback.
C2_Witness ==
    /\ fr.map = "fail"
    /\ Len(reads) >= 1
    /\ cursor_xfer
    /\ gpu.pbo.src = frame

\* C3: in every reachable state the click log manip_clicks holds no two
\* consecutive entries with the same index.
C3_NoConsecutiveDuplicates ==
    \A i \in 1 .. (Len(manip_clicks) - 1) :
        manip_clicks[i].index # manip_clicks[i + 1].index

\* Two clicks are logged and a later successful readback of the index logged
\* last was not logged again.
C3_Witness ==
    /\ Len(manip_clicks) >= 2
    /\ fr.map = "ok"
    /\ manip_idx = manip_clicks[Len(manip_clicks)].index
    /\ manip_obs.at > click_obs[Len(click_obs)].at

\* Readbacks i, i+1, i+2 resolve k, the sentinel, k.
GapPattern(i) ==
    /\ reads[i].val # SENTINEL
    /\ reads[i + 1].val = SENTINEL
    /\ reads[i + 2].val = reads[i].val

\* C4, as claimed: when successive successful readbacks resolve k, the
\* sentinel, then k again, the second k is logged as a new ClickEvent.
C4_GapStartsNewEvent ==
    \A i \in 1 .. (Len(reads) - 2) :
        GapPattern(i) => reads[i + 2].n = reads[i + 1].n + 1

\* C4, amended: when successive successful readbacks resolve k, the
\* sentinel, then k again, neither the sentinel nor the second k appends a
\* ClickEvent: the event for k logged before stays the last entry.
C4_GapIsMerged ==
    \A i \in 1 .. (Len(reads) - 2) :
        GapPattern(i) =>
            /\ reads[i + 2].n = reads[i].n
            /\ reads[i].n >= 1
            /\ manip_clicks[reads[i].n].index = reads[i].val

C4_Witness ==
    \E i \in 1 .. (Len(reads) - 2) : GapPattern(i) /\ reads[i].n = 1

\* The index resolved by the last readback before readback i that was not
\* the sentinel (the sentinel when there is none).
RECURSIVE LastHitBefore(_)
LastHitBefore(i) ==
    IF i <= 1 THEN SENTINEL
    ELSE IF reads[i - 1].val # SENTINEL THEN reads[i - 1].val
    ELSE LastHitBefore(i - 1)

\* The length of the click log before readback i.
ClicksBefore(i) == IF i = 1 THEN 0 ELSE reads[i - 1].n

\* Readbacks i..j all resolve the same index, not the sentinel, and i is
\* the first of that run.
RunOf(i, j) ==
    /\ i < j
    /\ reads[i].val # SENTINEL
    /\ \A m \in i .. j : reads[m].val = reads[i].val
    /\ (i = 1 \/ reads[i - 1].val # reads[i].val)

\* The readback that appended click number n.
AppendedAt(n) == CHOOSE m \in 1 .. Len(reads) :
                    reads[m].n = n /\ ClicksBefore(m) = n - 1

\* C5, as claimed: a run of consecutive readbacks of the same index k
\* appends exactly one ClickEvent, at the first of them, stamped then.
C5_RunLogsOnceAtFirst ==
    \A i, j \in 1 .. Len(reads) :
        RunOf(i, j) =>
            /\ reads[i].n = ClicksBefore(i) + 1
            /\ reads[j].n = reads[i].n
            /\ manip_clicks[reads[i].n] =
                   [index |-> reads[i].val, start_t |-> reads[i].t]

\* C5, amended: a run of consecutive readbacks of the same index k appends
\* one ClickEvent at the first of them, unless k is already the index logged
\* last (k, sentinel, k, k), when it appends none; the later ones append
\* nothing, the last entry is the one for k, and its start_t is the
\* timestamp of the readback that appended it.
C5_RunLogsAtMostOnce ==
    \A i, j \in 1 .. Len(reads) :
        RunOf(i, j) =>
            /\ reads[i].n = ClicksBefore(i)
                            + (IF LastHitBefore(i) = reads[i].val THEN 0 ELSE 1)
            /\ reads[j].n = reads[i].n
            /\ reads[i].n >= 1
            /\ Len(manip_clicks) >= reads[i].n
            /\ manip_clicks[reads[i].n].index = reads[i].val
            /\ manip_clicks[reads[i].n].start_t = reads[AppendedAt(reads[i].n)].t
            /\ AppendedAt(reads[i].n) <= i

\* A run of three readbacks of one index, the first of which was logged.
C5_Witness ==
    \E i \in 1 .. Len(reads) :
        /\ i + 2 <= Len(reads)
        /\ RunOf(i, i + 2)
        /\ reads[i].n = ClicksBefore(i) + 1
        /\ manip_clicks[reads[i].n].start_t = reads[i].t
        /\ clock > reads[i].t

\* C6: the value rendered by the pick pass of frame N reaches manip_idx and
\* the click log only through the drain of a later frame: the transfer a
\* drain reads was issued by an earlier draw_cb invocation.
C6_OneFrameLatency ==
    /\ manip_obs.at > 0 => manip_obs.src < manip_obs.at
    /\ \A i \in 1 .. Len(click_obs) : click_obs[i].src < click_obs[i].at
    /\ gpu.pbo.defined => gpu.pbo.src <= frame

\* A click whose index was rendered at frame N and read back at frame N+1.
C6_Witness ==
    /\ manip_obs.src >= 1
    /\ manip_obs.at = manip_obs.src + 1
    /\ manip_idx # SENTINEL
    /\ Len(click_obs) >= 1
    /\ click_obs[Len(click_obs)].at = click_obs[Len(click_obs)].src + 1

\* The pointer is off the rectangle with corners (x, y), (x + width, y + height).
OutsideRect(mouse, vp) ==
    ~ /\ vp[1] <= mouse[1] /\ mouse[1] <= vp[1] + vp[3]
      /\ vp[2] <= mouse[2] /\ mouse[2] <= vp[2] + vp[4]

FullPass == <<"drain", "issue", "paint">>

\* C7: a frame whose pointer is outside the viewport rectangle runs neither
\* the pick pass nor the paint pass and changes nothing; a frame whose
\* pointer is inside runs the pick pass (and, unless the frame aborts, the
\* paint pass after it).
C7_BoundsGate ==
    [][ frame' = frame + 1 =>
          IF OutsideRect(fr'.mouse, fr'.vp)
          THEN /\ fr'.ops = <<>>
               /\ UNCHANGED << cursor_xfer, manip_idx, prev_manip_idx,
                               manip_clicks, gpu, obj, crashed, reads,
                               cursor_tex, cursor_fbo, cursor_pbo >>
          ELSE /\ Len(fr'.ops) >= 1 /\ fr'.ops[1] = "drain"
               /\ (~crashed' => fr'.ops = FullPass) ]_vars

\* The spec's bounds scenario, with a transfer pending: viewport
\* (0,0,800,600), pointer (-5,100), nothing ran.
C7_Witness ==
    /\ frame >= 2
    /\ fr.vp = <<0, 0, 800, 600>> /\ fr.mouse = <<-5, 100>>
    /\ fr.ops = <<>>
    /\ cursor_xfer

\* C8: when resolve_manip returns, the framebuffer binding, the viewport and
\* the depth state (test enable, write mask, function, clear depth) are what
\* the host had set before the call.
C8_HostStateRestored ==
    fr.resolved =>
        /\ fr.gl_resolved.fbo = fr.host.fbo
        /\ fr.gl_resolved.viewport = fr.vp
        /\ fr.gl_resolved.depth_test = fr.host.depth_test
        /\ fr.gl_resolved.depth_mask = fr.host.depth_mask
        /\ fr.gl_resolved.depth_func = fr.host.depth_func
        /\ fr.gl_resolved.clear_depth = fr.host.clear_depth

\* C9: a readback of a pick pass whose texel no manipulator geometry covered
\* sets manip_idx to the sentinel 0xFFFF, and no click with the sentinel
\* index is ever logged.
C9_UncoveredIsSentinel ==
    /\ (manip_obs.src >= 1 /\ ~manip_obs.covered) => manip_idx = SENTINEL
    /\ \A i \in 1 .. Len(manip_clicks) : manip_clicks[i].index # SENTINEL

\* After a click, an empty pick pass was read back: manip_idx is the
\* sentinel and the log did not grow.
C9_Witness ==
    /\ manip_obs.src >= 1 /\ ~manip_obs.covered
    /\ manip_idx = SENTINEL
    /\ Len(manip_clicks) >= 1
    /\ Len(reads) >= 2 /\ reads[Len(reads)].n = reads[Len(reads) - 1].n

\* C10: manip_idx, prev_manip_idx and the click log change only in a
\* draw_cb invocation whose drain mapped the buffer; a drain whose map fails
\* returns, and the frame (its object being loaded) runs to its end.
C10_OnlySuccessfulDrainWrites ==
    [][ /\ (manip_idx' # manip_idx \/ manip_clicks' # manip_clicks
              \/ prev_manip_idx' # prev_manip_idx)
           => (frame' = frame + 1 /\ fr'.map = "ok")
        /\ (frame' = frame + 1 /\ fr'.map = "fail")
           => /\ fr'.xfer_after_drain = "idle"
              /\ obj.loaded => (~crashed' /\ fr'.ops = FullPass) ]_vars

\* The index read back two or more frames ago is still exposed after a
\* frame whose map failed.
C10_Witness ==
    /\ fr.map = "fail"
    /\ fr.ops = FullPass
    /\ manip_idx # SENTINEL
    /\ manip_obs.at >= 1 /\ manip_obs.at + 2 <= frame
    /\ Len(manip_clicks) >= 1

\* destroy_cursor_objects leaves every handle null, and a second call
\* changes nothing.
DestroyIsTolerant(s) ==
    LET d == DestroyCursorObjects(s) IN
    /\ d.cursor_pbo = 0 /\ d.cursor_fbo = 0 /\ d.cursor_tex = <<0, 0>>
    /\ DestroyCursorObjects(d) = d

\* C11: after XPluginDisable returns, whatever preceded it, every pick
\* surface GL object is released (none exists any more) and the handles
\* cursor_pbo, cursor_fbo, cursor_tex are null; destroy_cursor_objects
\* tolerates partially created and already destroyed objects.
C11_DisableReleasesAll ==
    [][ /\ (enabled /\ ~enabled') =>
              /\ cursor_pbo' = 0 /\ cursor_fbo' = 0 /\ cursor_tex' = <<0, 0>>
              /\ gl_objects' = NoGlObjects
        /\ DestroyIsTolerant(Cur)' ]_vars

\* The part of C11 about the handles alone.
C11_HandlesNulled ==
    [][ /\ (enabled /\ ~enabled') =>
              /\ cursor_pbo' = 0 /\ cursor_fbo' = 0 /\ cursor_tex' = <<0, 0>>
        /\ DestroyIsTolerant(Cur)' ]_vars

\* C12: a transfer pending when XPluginDisable runs is discarded: while the
\* plugin is disabled no transfer is pending, and every value a drain reads
\* into manip_idx or logs as a click was issued by a pick pass (never read
\* from a transfer buffer no pick pass of this enablement wrote).
C12_PendingDiscardedOnDisable ==
    /\ ~enabled => ~cursor_xfer
    /\ manip_obs.at > 0 => manip_obs.src >= 1
    /\ \A i \in 1 .. Len(click_obs) : click_obs[i].src >= 1

\* C13: the frame callback is registered only while the plugin is enabled,
\* and whenever it runs a pick or paint pass the handles cursor_pbo and
\* cursor_fbo are non-null and a scene object is loaded, so that no
\* assertion fails and the frame is not aborted.
C13_PassesHaveTheirObjects ==
    /\ [](cb_registered => enabled)
    /\ [][ (frame' = frame + 1 /\ fr'.ops # <<>>) =>
              /\ cursor_pbo # 0 /\ cursor_fbo # 0
              /\ obj.loaded
              /\ ~crashed' ]_vars

\* The part of C13 about the registration and the handles alone.
C13_HandlesAtPasses ==
    /\ [](cb_registered => enabled)
    /\ [][ (frame' = frame + 1 /\ fr'.ops # <<>>) =>
              (cursor_pbo # 0 /\ cursor_fbo # 0) ]_vars

\* C14: when the aircraft load does not resolve the cockpit object, or no
\* command of it is bound to the painted dataref, no pick pass and no paint
\* pass runs for that aircraft: every pass runs after a load that resolved
\* both, and no paint draw is made with indexToPaint unresolved.
C14_FailedLoadRunsNoPass ==
    [][ (frame' = frame + 1 /\ fr'.ops # <<>>) =>
          /\ load_obs.object /\ load_obs.binding
          /\ fr'.paint_draw.arg # INDEX_UNSET ]_vars

\* C15: when shader compilation fails in XPluginEnable the plugin is left
\* as if never enabled: while it is not enabled no frame callback is
\* registered and no pick surface GL object is allocated.
C15_FailedEnableIsClean ==
    (~enabled /\ ~crashed) =>
        /\ ~cb_registered
        /\ cursor_pbo = 0 /\ cursor_fbo = 0 /\ cursor_tex = <<0, 0>>
        /\ gl_objects = NoGlObjects

\* The pointer is on a pixel of the viewport (the far edges x + width and
\* y + height are past its last column and row of pixels).
OnViewportPixel(mouse, vp) ==
    /\ vp[1] <= mouse[1] /\ mouse[1] < vp[1] + vp[3]
    /\ vp[2] <= mouse[2] /\ mouse[2] < vp[2] + vp[4]

Min(a, b) == IF a < b THEN a ELSE b

\* The index of the grid cell that contains the pointer, the last column and
\* row taken to contain the far edges.
CellUnder(mouse, vp) ==
    LET c == Min(NumManips - 1, ((mouse[1] - vp[1]) * NumManips) \div vp[3])
        r == Min(NumManips - 1, ((mouse[2] - vp[2]) * NumManips) \div vp[4])
    IN  r * NumManips + c

\* This step is a frame whose drain reads the transfer that the frame before
\* it issued over the grid scene.
ReadsGridPick ==
    /\ frame' = frame + 1
    /\ fr'.map = "ok"
    /\ fr.ops # <<>> /\ fr.scene.kind = "grid"
    /\ gpu.pbo.defined /\ gpu.pbo.src = frame

\* C16, as claimed: over the grid scene, for every pointer position that
\* draw_cb takes as in bounds, the index resolved by the following
\* successful readback is the index of the cell containing the pointer.
C16_CellUnderPointer ==
    [][ ReadsGridPick => manip_idx' = CellUnder(fr.mouse, fr.vp) ]_vars

\* C16, amended: over the grid scene, the following successful readback
\* resolves the index of the cell containing the pointer when the pointer is
\* on a pixel of the viewport, and the sentinel when it is on the far edge
\* x + width or y + height, which draw_cb still takes as in bounds.
C16_CellUnderPointerOnPixels ==
    [][ ReadsGridPick =>
          manip_idx' = IF OnViewportPixel(fr.mouse, fr.vp)
                       THEN CellUnder(fr.mouse, fr.vp)
                       ELSE SENTINEL ]_vars

\* A readback, one frame after the pick pass, of a cell that is not in the
\* first row of the grid.
C16_Witness ==
    /\ fr.map = "ok"
    /\ manip_obs.covered /\ manip_obs.src + 1 = frame
    /\ manip_idx # SENTINEL /\ manip_idx >= NumManips

\* C17: a frame whose pointer is in bounds (its scene object being loaded)
\* performs, once each and in this order, the drain of the transfer pending
\* at its entry, the issuance of a new pick pass and the paint pass; the
\* paint pass runs whatever was read back and whether or not the map
\* succeeded.
C17_DrainIssuePaint ==
    [][ (frame' = frame + 1 /\ ~OutsideRect(fr'.mouse, fr'.vp) /\ obj.loaded) =>
          /\ fr'.ops = FullPass
          /\ cursor_xfer <=> fr'.map # "none"
          /\ fr'.xfer_at_issue = "idle"
          /\ fr'.pick_draw # NoDraw /\ fr'.paint_draw # NoDraw
          /\ ~crashed' ]_vars

\* The paint pass ran in a frame whose map failed while manip_idx is the
\* sentinel.
C17_Witness ==
    /\ fr.ops = FullPass /\ fr.paint_draw # NoDraw
    /\ fr.map = "fail" /\ manip_idx = SENTINEL /\ Len(reads) >= 1

\* C18: the click log is append-only: every step leaves the log it found as
\* a prefix of the log it leaves, across frames, aircraft loads, disables
\* and re-enables.
C18_LogAppendOnly ==
    [][ /\ Len(manip_clicks') >= Len(manip_clicks)
        /\ SubSeq(manip_clicks', 1, Len(manip_clicks)) = manip_clicks ]_vars

\* Two clicks logged before a disable are still there after it.
C18_Witness ==
    /\ ~enabled
    /\ Len(manip_clicks) >= 2
    /\ manip_clicks[1].start_t < manip_clicks[2].start_t

\* C19: cursor_xfer goes from false to true only where the pick pass issues
\* the copy and from true to false only in a drain; a drain that finds no
\* transfer pending changes neither the flag, manip_idx, prev_manip_idx nor
\* the click log; a frame that ran its passes ends with a transfer pending.
C19_FlagTransitions ==
    [][ /\ (~cursor_xfer /\ cursor_xfer') =>
              /\ frame' = frame + 1
              /\ fr'.xfer_at_issue = "idle"
              /\ fr'.ops = FullPass
        /\ (cursor_xfer /\ ~cursor_xfer') =>
              /\ frame' = frame + 1
              /\ fr'.xfer_after_drain = "idle"
        /\ (frame' = frame + 1 /\ ~cursor_xfer /\ fr'.ops # <<>>) =>
              /\ fr'.map = "none"
              /\ fr'.xfer_at_issue # "pending"
              /\ UNCHANGED << manip_idx, prev_manip_idx, manip_clicks, reads >>
        /\ (frame' = frame + 1 /\ fr'.ops = FullPass) => cursor_xfer' ]_vars

\* A frame, not the first, whose drain found nothing pending and whose pick
\* pass then issued a transfer.
C19_Witness ==
    /\ frame >= 2
    /\ fr.map = "none" /\ fr.xfer_at_issue = "idle"
    /\ fr.ops = FullPass
    /\ cursor_xfer

\* C20: every pick draw is made in render mode manip-only and every paint
\* draw in mode non-manip-only-one filtered to indexToPaint, whatever mode
\* the pass before left on the object.
C20_RenderModes ==
    [][ frame' = frame + 1 =>
          /\ fr'.pick_draw # NoDraw =>
                fr'.pick_draw = [mode |-> "MANIP_ONLY", arg |-> 0]
          /\ fr'.paint_draw # NoDraw =>
                /\ fr'.paint_draw = [mode |-> "NONMANIP_ONLY_ONE",
                                     arg |-> indexToPaint]
                /\ fr'.paint_cmdidx = indexToPaint
          /\ fr'.ops = FullPass =>
                (fr'.pick_draw # NoDraw /\ fr'.paint_draw # NoDraw) ]_vars

\* A pick draw in manip-only mode in a frame that follows a paint pass (its
\* drain found that frame's transfer), the object now left in the paint mode.
C20_Witness ==
    /\ frame >= 2
    /\ fr.map # "none"
    /\ fr.pick_draw.mode = "MANIP_ONLY"
    /\ fr.paint_draw.mode = "NONMANIP_ONLY_ONE"
    /\ obj.mode = "NONMANIP_ONLY_ONE"

\* The first readback of the run of equal values that readback i ends.
RECURSIVE RunStart(_)
RunStart(i) ==
    IF i > 1 /\ reads[i - 1].val = reads[i].val THEN RunStart(i - 1) ELSE i

\* manip_idx is a manipulator, the one the last readback resolved.
ActiveHit ==
    /\ manip_idx # SENTINEL
    /\ Len(reads) >= 1 /\ reads[Len(reads)].val = manip_idx

\* What holds of the last entry whenever manip_idx is not the sentinel, and
\* of prev_manip_idx always.
LastEntryIsActive ==
    /\ manip_idx # SENTINEL =>
          /\ Len(manip_clicks) >= 1
          /\ manip_clicks[Len(manip_clicks)].index = manip_idx
    /\ prev_manip_idx = IF Len(manip_clicks) = 0 THEN SENTINEL
                        ELSE manip_clicks[Len(manip_clicks)].index

\* C21, as claimed: whenever manip_idx is not the sentinel the click log is
\* non-empty and its last entry has index manip_idx (prev_manip_idx being
\* the index of the last entry, or the sentinel while the log is empty), and
\* the last entry's start_t is when the active interaction, the current run
\* of readbacks of manip_idx, began.
C21_DurationOfActiveRun ==
    /\ LastEntryIsActive
    /\ ActiveHit =>
          manip_clicks[Len(manip_clicks)].start_t
              = reads[RunStart(Len(reads))].t

\* C21, amended: the same of manip_idx, prev_manip_idx and the last entry;
\* the last entry's start_t is when the current run of readbacks of
\* manip_idx began, unless the last manipulator read back before that run
\* was the same one (only sentinel readbacks in between), when it is the
\* earlier time at which that entry was logged.
C21_LastEntryIsActive ==
    /\ LastEntryIsActive
    /\ \A i \in 1 .. Len(manip_clicks) : manip_clicks[i].start_t <= clock
    /\ ActiveHit =>
          LET rs == RunStart(Len(reads))
              st == manip_clicks[Len(manip_clicks)].start_t
          IN  IF LastHitBefore(rs) = manip_idx
              THEN st < reads[rs].t
              ELSE st = reads[rs].t

\* The second manipulator logged is still the active one a readback later,
\* its start_t being that of the first readback of the run.
C21_Witness ==
    /\ Len(manip_clicks) >= 2
    /\ ActiveHit
    /\ manip_idx = manip_clicks[Len(manip_clicks)].index
    /\ RunStart(Len(reads)) < Len(reads)
    /\ manip_clicks[Len(manip_clicks)].start_t = reads[RunStart(Len(reads))].t
    /\ clock > manip_clicks[Len(manip_clicks)].start_t

\* C22: a frame whose pointer is out of bounds changes no module state, so
\* a pending transfer stays pending, neither drained nor issued anew, and
\* manip_idx keeps its value; the transfer is drained by the next in-bounds
\* frame, which reads the index rendered at the last in-bounds frame.
C22_OffScreenFramesKeepTransfer ==
    /\ [][ (frame' = frame + 1 /\ OutsideRect(fr'.mouse, fr'.vp)) =>
              /\ UNCHANGED << cursor_xfer, manip_idx, prev_manip_idx,
                              manip_clicks, gpu, gl_objects, obj, indexToPaint,
                              cursor_tex, cursor_fbo, cursor_pbo,
                              resolve_shader, paint_shader,
                              enabled, cb_registered, crashed,
                              reads, manip_obs, click_obs >>
              /\ fr'.map = "none" /\ fr'.xfer_at_issue = "n/a" ]_vars
    /\ [][ (frame' = frame + 1 /\ fr'.map = "ok" /\ gpu.pbo.defined) =>
              /\ manip_idx' = gpu.pbo.val
              /\ manip_obs'.src = gpu.pbo.src
              /\ manip_obs'.at = frame' ]_vars
    /\ [](gpu.pbo.defined =>
              IF fr.ops = FullPass THEN gpu.pbo.src = frame
              ELSE gpu.pbo.src < frame)
    /\ [][ (frame' = frame + 1 /\ fr'.ops = FullPass) =>
              gpu'.pbo.src = frame' ]_vars

\* A manipulator rendered at one frame was read back two or more frames
\* later, the frames in between having left the transfer pending.
C22_Witness ==
    /\ fr.map = "ok"
    /\ manip_obs.src >= 1 /\ manip_obs.at = frame
    /\ manip_obs.at >= manip_obs.src + 2
    /\ manip_obs.covered /\ manip_idx # SENTINEL

\* The pointer is on the far edge of the viewport, one past its last column
\* or row of pixels, and not beyond.
OnFarEdge(mouse, vp) ==
    /\ ~OutsideRect(mouse, vp)
    /\ (mouse[1] = vp[1] + vp[3] \/ mouse[2] = vp[2] + vp[4])

\* C23: the bounds test of draw_cb is inclusive on all four edges: the
\* passes run exactly when vp.x <= x <= vp.x + width and
\* vp.y <= y <= vp.y + height, and for a pointer on the far edge a pick pass
\* is issued, with the viewport offset by the pointer.
C23_InclusiveEdges ==
    [][ frame' = frame + 1 =>
          /\ fr'.ops # <<>> <=>
                /\ fr'.vp[1] <= fr'.mouse[1]
                /\ fr'.mouse[1] <= fr'.vp[1] + fr'.vp[3]
                /\ fr'.vp[2] <= fr'.mouse[2]
                /\ fr'.mouse[2] <= fr'.vp[2] + fr'.vp[4]
          /\ (OnFarEdge(fr'.mouse, fr'.vp) /\ obj.loaded) =>
                /\ fr'.xfer_at_issue = "idle"
                /\ fr'.pick_draw # NoDraw
                /\ cursor_xfer'
                /\ gpu'.pbo.defined /\ gpu'.pbo.src = frame' ]_vars

\* A pick pass was issued for a pointer on the far corner of a viewport
\* whose origin is not zero.
C23_Witness ==
    /\ fr.vp = <<100, 50, 400, 300>> /\ fr.mouse = <<500, 350>>
    /\ fr.ops = FullPass
    /\ cursor_xfer /\ gpu.pbo.src = frame

====
